---- MODULE Spec2Model ----
(***************************************************************************)
(* Midas (src/src/main.rs): the in-memory tracked-product store behind     *)
(* the axum handlers login_handler, dashboard, add_product and             *)
(* view_products.                                                          *)
(*                                                                         *)
(* A string of the program is the sequence of its characters, Str("ab") =  *)
(* <<"a", "b">>, so that lowering, searching, formatting and parsing are   *)
(* computed character by character as the code computes them.              *)
(* Option<T> is a sequence: <<>> is None, <<x>> is Some(x).                *)
(* Every request handler is a process: it receives a request, runs to the  *)
(* store's mutex, takes it, reads or pushes, releases it and responds.     *)
(***************************************************************************)
EXTENDS Integers, Sequences, FiniteSets, TLC

(***************************************************************************)
(* Bounds of the model.                                                    *)
(***************************************************************************)
\* Concurrent request handlers (tokio tasks) in flight at once.
NumHandlers == 2
\* Products the store holds at most in the concurrent specification.
MaxProducts == 2
\* Products the store holds at most in the sequential specification.
MaxProductsSeq == 1
\* SystemTime::now() answers a value in 0..MaxTime.
MaxTime == 0

Handlers == 1..NumHandlers
Times == 0..MaxTime

(***************************************************************************)
(* Strings.                                                                *)
(***************************************************************************)
RECURSIVE Str(_)
\* The characters of a string literal.
Str(lit) ==
    IF lit = "" THEN <<>>
    ELSE <<SubSeq(lit, 1, 1)>> \o Str(SubSeq(lit, 2, Len(lit)))

UpperChars == Str("ABCDEFGHIJKLMNOPQRSTUVWXYZ")
LowerChars == Str("abcdefghijklmnopqrstuvwxyz")
UpperSet == {UpperChars[i] : i \in 1..26}
Lowered == [c \in UpperSet |-> LowerChars[CHOOSE i \in 1..26 : UpperChars[i] = c]]

\* char::to_lowercase on the ASCII range.
LowerChar(c) == IF c \in UpperSet THEN Lowered[c] ELSE c

\* str::to_lowercase
to_lowercase(s) == [i \in 1..Len(s) |-> LowerChar(s[i])]

\* str::contains(pat): pat occurs in s as a contiguous substring.
contains(s, pat) ==
    \E i \in 1..(Len(s) - Len(pat) + 1) : SubSeq(s, i, i + Len(pat) - 1) = pat

\* Option::unwrap_or_else.
unwrap_or(opt, default) == IF opt = <<>> THEN default ELSE opt[1]

\* Vec::contains.
vec_contains(v, x) == \E i \in 1..Len(v) : v[i] = x

RECURSIVE filter_added_by(_, _)
\* all_products.iter().filter(|p| p.added_by == username).collect()
filter_added_by(ps, username) ==
    IF ps = <<>> THEN <<>>
    ELSE IF ps[1].added_by = username
         THEN <<ps[1]>> \o filter_added_by(Tail(ps), username)
         ELSE filter_added_by(Tail(ps), username)

(***************************************************************************)
(* Identity.                                                               *)
(***************************************************************************)
\* The string literals of main.rs.
AdminName == Str("admin")
RoleAdmin == Str("admin")
RoleRegular == Str("regular")
Anonymous == Str("Anonymous")
BestBuy == Str("Best Buy")
Amazon == Str("Amazon")
BestBuyCom == Str("bestbuy.com")
AmazonCom == Str("amazon.com")
AmznTo == Str("amzn.to")
ACo == Str("a.co")
RootPath == Str("/")
DashboardUser == Str("/dashboard?user=")
AddProductUser == Str("/add-product?user=")
ProductsPath == Str("/products")
AndRole == Str("&role=")
AndError == Str("&error=")
AndSuccess == Str("&success=true")
InvalidRetailer == Str("invalid_retailer")
InvalidUrl == Str("invalid_url")

\* is_admin without to_lowercase.
is_admin_exact(username) == username = AdminName

is_admin(username) == to_lowercase(username) = AdminName

\* Redirect::to(location)
Redirect(location) ==
    [kind |-> "redirect", location |-> location, shown |-> <<>>, links |-> <<>>]
\* A rendered page: the product cards it shows, in order, and the urls of its
\* form actions and links.
Page(shown, links) ==
    [kind |-> "page", location |-> <<>>, shown |-> shown, links |-> links]
NoResponse == [kind |-> "none", location |-> <<>>, shown |-> <<>>, links |-> <<>>]

login_handler(form) ==
    IF form.username # <<>> /\ form.password # <<>>
    THEN Redirect(DashboardUser \o form.username \o AndRole
                  \o (IF is_admin(form.username) THEN RoleAdmin ELSE RoleRegular))
    ELSE Redirect(RootPath)

(***************************************************************************)
(* Products.                                                               *)
(***************************************************************************)
supported_retailers == <<BestBuy, Amazon>>

is_valid_retailer(form) == vec_contains(supported_retailers, form.retailer)

\* is_valid_url with every retailer's fragments accepted for every retailer.
is_valid_url_any_retailer(form) ==
    LET url == to_lowercase(form.url)
    IN  contains(url, BestBuyCom) \/ contains(url, AmazonCom)
        \/ contains(url, AmznTo) \/ contains(url, ACo)

is_valid_url(form) ==
    CASE form.retailer = BestBuy ->
            contains(to_lowercase(form.url), BestBuyCom)
      [] form.retailer = Amazon ->
            LET url == to_lowercase(form.url)
            IN  contains(url, AmazonCom) \/ contains(url, AmznTo)
                \/ contains(url, ACo)
      [] OTHER -> FALSE

(***************************************************************************)
(* str::parse::<f64>().  The grammar is the one of core's dec2flt:         *)
(*   [sign] ( "inf" | "infinity" | "nan" | digits ["." digits] [exp] )     *)
(* with at least one digit around the point, letters in either case, and   *)
(* no white space.  A parsed number is kept as the decimal it denotes,     *)
(* mant * 10^exp with mant not divisible by 10 (the rounding to the        *)
(* nearest double is not modelled).                                        *)
(***************************************************************************)
Digits == Str("0123456789")
DigitSet == {Digits[d] : d \in 1..10}
DigitVals == [c \in DigitSet |-> (CHOOSE d \in 1..10 : Digits[d] = c) - 1]
IsDigit(c) == c \in DigitSet
DigitVal(c) == DigitVals[c]
Inf == Str("inf")
Infinity == Str("infinity")
NaN == Str("nan")

RECURSIVE DigitRun(_, _)
\* How many digits of s start at position i.
DigitRun(s, i) ==
    IF i <= Len(s) /\ IsDigit(s[i]) THEN 1 + DigitRun(s, i + 1) ELSE 0

RECURSIVE NatOf(_)
\* The number a string of digits denotes ("" denotes 0).
NatOf(s) ==
    IF s = <<>> THEN 0
    ELSE 10 * NatOf(SubSeq(s, 1, Len(s) - 1)) + DigitVal(s[Len(s)])

RECURSIVE Normal(_, _, _)
Normal(neg, mant, exp) ==
    IF mant = 0 THEN [kind |-> "num", neg |-> neg, mant |-> 0, exp |-> 0]
    ELSE IF mant % 10 = 0 THEN Normal(neg, mant \div 10, exp + 1)
    ELSE [kind |-> "num", neg |-> neg, mant |-> mant, exp |-> exp]

Infinite(neg) == [kind |-> "inf", neg |-> neg, mant |-> 0, exp |-> 0]
NotANumber == [kind |-> "nan", neg |-> FALSE, mant |-> 0, exp |-> 0]

\* The exponent part of s from position i to the end: <<e>>, or <<>> if it is
\* not "e" [sign] digits.
ParseExp(s, i) ==
    IF ~(s[i] \in {"e", "E"}) THEN <<>>
    ELSE LET signed == i + 1 <= Len(s) /\ s[i + 1] \in {"+", "-"}
             from == IF signed THEN i + 2 ELSE i + 1
             n == DigitRun(s, from)
         IN  IF n = 0 \/ from + n - 1 # Len(s) THEN <<>>
             ELSE LET e == NatOf(SubSeq(s, from, Len(s)))
                  IN  <<IF signed /\ s[i + 1] = "-" THEN 0 - e ELSE e>>

\* A parser of unsigned whole numbers only.
parse_digits(text) ==
    IF text # <<>> /\ DigitRun(text, 1) = Len(text)
    THEN <<Normal(FALSE, NatOf(text), 0)>>
    ELSE <<>>

parse_f64(text) ==
    LET signed == text # <<>> /\ text[1] \in {"+", "-"}
        neg == signed /\ text[1] = "-"
        s == IF signed THEN SubSeq(text, 2, Len(text)) ELSE text
        n1 == DigitRun(s, 1)
        point == n1 + 1 <= Len(s) /\ s[n1 + 1] = "."
        n2 == IF point THEN DigitRun(s, n1 + 2) ELSE 0
        next == n1 + (IF point THEN 1 ELSE 0) + n2 + 1
        mant == NatOf(SubSeq(s, 1, n1) \o SubSeq(s, n1 + 2, n1 + 1 + n2))
    IN  IF s = <<>> THEN <<>>
        ELSE IF to_lowercase(s) \in {Inf, Infinity} THEN <<Infinite(neg)>>
        ELSE IF to_lowercase(s) = NaN THEN <<NotANumber>>
        ELSE IF n1 + n2 = 0 THEN <<>>
        ELSE IF next > Len(s) THEN <<Normal(neg, mant, 0 - n2)>>
        ELSE LET e == ParseExp(s, next)
             IN  IF e = <<>> THEN <<>> ELSE <<Normal(neg, mant, e[1] - n2)>>

\* form.target_price.filter(|s| !s.is_empty()).and_then(|s| s.parse::<f64>().ok())
parse_target_price(target_price) ==
    IF target_price = <<>> \/ target_price[1] = <<>> THEN <<>>
    ELSE parse_f64(target_price[1])

(***************************************************************************)
(* Requests.                                                               *)
(***************************************************************************)
NoRequest ==
    [op |-> "none", user |-> <<>>, role |-> <<>>, username |-> <<>>,
     password |-> <<>>, url |-> <<>>, name |-> <<>>, retailer |-> <<>>,
     target_price |-> <<>>]

\* POST /login with a LoginForm.
LoginRequest(username, password) ==
    [NoRequest EXCEPT !.op = "login", !.username = username,
                      !.password = password]

\* POST /add-product?user=..&role=.. with a ProductForm.
AddRequest(user, role, form) ==
    [NoRequest EXCEPT !.op = "add_product", !.user = user, !.role = role,
                      !.url = form.url, !.name = form.name,
                      !.retailer = form.retailer,
                      !.target_price = form.target_price]

\* GET /dashboard?user=..&role=.. or GET /products?user=..&role=..
ListRequest(op, user, role) ==
    [NoRequest EXCEPT !.op = op, !.user = user, !.role = role]

ProductForm(url, name, retailer, target_price) ==
    [url |-> url, name |-> name, retailer |-> retailer,
     target_price |-> target_price]

(***************************************************************************)
(* State.                                                                  *)
(***************************************************************************)
VARIABLES
    products,   \* AppState: the Vec<Product> behind the mutex
    mutex,      \* the handler holding the MutexGuard, or 0
    pc,         \* pc[h]: where handler h is
    req,        \* req[h]: the request handler h serves
    loc,        \* loc[h]: handler h's local variables
    resp,       \* resp[h]: the response handler h returned
    origin,     \* history: origin[i] is the user and the candidate of the
                \* request whose handler pushed the i-th product
    listed      \* history: the result of an earlier list, or <<>>

vars == <<products, mutex, pc, req, loc, resp, origin, listed>>

NoLocals ==
    [username |-> <<>>, role |-> <<>>, is_admin_user |-> FALSE,
     product |-> <<>>, visible |-> <<>>]

create_app_state == <<>>

Init ==
    /\ products = create_app_state
    /\ mutex = 0
    /\ pc = [h \in Handlers |-> "idle"]
    /\ req = [h \in Handlers |-> NoRequest]
    /\ loc = [h \in Handlers |-> NoLocals]
    /\ resp = [h \in Handlers |-> NoResponse]
    /\ origin = <<>>
    /\ listed = <<>>

\* Handler h returns response: its locals are dropped.  With keep the
\* response and its request stay to be looked at until finish(h); without,
\* the response is sent and the task ends in the same step.
returns(h, request, response, keep) ==
    /\ pc' = [pc EXCEPT ![h] = IF keep THEN "done" ELSE "idle"]
    /\ req' = [req EXCEPT ![h] = IF keep THEN request ELSE NoRequest]
    /\ resp' = [resp EXCEPT ![h] = IF keep THEN response ELSE NoResponse]
    /\ loc' = [loc EXCEPT ![h] = NoLocals]

(***************************************************************************)
(* login_handler.                                                          *)
(***************************************************************************)
login(h, username, password, keep) ==
    /\ pc[h] = "idle"
    /\ returns(h, LoginRequest(username, password),
               login_handler([username |-> username, password |-> password]),
               keep)
    /\ UNCHANGED <<products, mutex, origin, listed>>

(***************************************************************************)
(* add_product.                                                            *)
(***************************************************************************)
\* Handlers that will still push a product.
Pushing == {h \in Handlers : req[h].op = "add_product" /\ pc[h] \in {"lock", "push"}}

\* error_redirect with the url looked at before the retailer.
error_redirect_url_first(username, role, form) ==
    Redirect(DashboardUser \o username \o AndRole \o role \o AndError
             \o (IF ~is_valid_url(form) THEN InvalidUrl ELSE InvalidRetailer))

error_redirect(username, role, form) ==
    Redirect(DashboardUser \o username \o AndRole \o role \o AndError
             \o (IF ~is_valid_retailer(form) THEN InvalidRetailer
                 ELSE InvalidUrl))

\* new_product that does not record who adds.
new_product_anonymous(form, username, now) ==
    [url |-> form.url, name |-> form.name, retailer |-> form.retailer,
     target_price |-> parse_target_price(form.target_price),
     added_by |-> Anonymous, created_at |-> now]

new_product(form, username, now) ==
    [url |-> form.url, name |-> form.name, retailer |-> form.retailer,
     target_price |-> parse_target_price(form.target_price),
     added_by |-> username, created_at |-> now]

\* Lines 415-458: the query, the validation, the price and the product, up to
\* the call of state.lock().  cap bounds the store.
add_product_begin(h, user, role, form, cap, keep) ==
    /\ pc[h] = "idle"
    /\ LET username == unwrap_or(user, Anonymous)
           role_ == unwrap_or(role, RoleRegular)
       IN  IF ~is_valid_retailer(form) \/ ~is_valid_url(form)
           THEN returns(h, AddRequest(user, role, form),
                        error_redirect(username, role_, form), keep)
           ELSE /\ Len(products) + Cardinality(Pushing) < cap
                /\ \E now \in Times :
                     loc' = [loc EXCEPT ![h] =
                                [NoLocals EXCEPT
                                    !.username = username, !.role = role_,
                                    !.product =
                                        <<new_product(form, username, now)>>]]
                /\ req' = [req EXCEPT ![h] = AddRequest(user, role, form)]
                /\ pc' = [pc EXCEPT ![h] = "lock"]
                /\ resp' = resp
    /\ UNCHANGED <<products, mutex, origin, listed>>

\* A lock that is taken whether or not it is held.
add_product_lock_unguarded(h) ==
    /\ req[h].op = "add_product"
    /\ pc[h] = "lock"
    /\ mutex' = h
    /\ pc' = [pc EXCEPT ![h] = "push"]
    /\ UNCHANGED <<products, req, loc, resp, origin, listed>>

\* Line 461: state.lock()
add_product_lock(h) ==
    /\ req[h].op = "add_product"
    /\ pc[h] = "lock"
    /\ mutex = 0
    /\ mutex' = h
    /\ pc' = [pc EXCEPT ![h] = "push"]
    /\ UNCHANGED <<products, req, loc, resp, origin, listed>>

\* push that loses the product.
push_lost(v, product) == v

\* push that stores the product twice.
push_twice(v, product) == Append(Append(v, product), product)

\* push at the front.
push_front(v, product) == <<product>> \o v

\* Vec::push
push(v, product) == Append(v, product)

\* Lines 461-465: .push(product), the guard is dropped at the end of the
\* statement, and the redirect to the dashboard is returned.
add_product_push(h, keep) ==
    /\ req[h].op = "add_product"
    /\ pc[h] = "push"
    /\ mutex = h
    /\ products' = push(products, loc[h].product[1])
    /\ origin' = Append(origin, [user |-> req[h].user, url |-> req[h].url,
                                 name |-> req[h].name,
                                 retailer |-> req[h].retailer,
                                 target_price |-> req[h].target_price])
    /\ mutex' = 0
    /\ returns(h, req[h],
               Redirect(DashboardUser \o loc[h].username \o AndRole
                        \o loc[h].role \o AndSuccess), keep)
    /\ UNCHANGED listed

(***************************************************************************)
(* dashboard and view_products.                                            *)
(***************************************************************************)
\* The dashboard shows this many of the most recent visible products.
RecentCount == 3

RECURSIVE rev(_)
\* Iterator::rev
rev(v) == IF v = <<>> THEN <<>> ELSE Append(rev(Tail(v)), Head(v))

\* Iterator::take
take(v, n) == SubSeq(v, 1, IF Len(v) < n THEN Len(v) ELSE n)

\* The query of a list request: username, role and is_admin_user.
list_begin(h, op, user, role) ==
    /\ pc[h] = "idle"
    /\ req' = [req EXCEPT ![h] = ListRequest(op, user, role)]
    /\ LET username == unwrap_or(user, Anonymous)
           role_ == unwrap_or(role, RoleRegular)
       IN  loc' = [loc EXCEPT ![h] =
                      [NoLocals EXCEPT !.username = username, !.role = role_,
                                       !.is_admin_user = (role_ = RoleAdmin)]]
    /\ pc' = [pc EXCEPT ![h] = "lock"]
    /\ UNCHANGED <<products, mutex, resp, origin, listed>>

\* Lines 214-217, and the page down to the products section.
dashboard_begin(h, user, role) == list_begin(h, "dashboard", user, role)

\* Lines 472-474, and the page down to the products section.
view_products_begin(h, user, role) == list_begin(h, "view_products", user, role)

\* visible_products without the filter: everybody sees all.
visible_products_all(all_products, is_admin_user, username) == all_products

\* visible_products without the admin branch: everybody sees only their own.
visible_products_own(all_products, is_admin_user, username) ==
    filter_added_by(all_products, username)

\* Admins see all, regular users see only their own.
visible_products(all_products, is_admin_user, username) ==
    IF is_admin_user THEN all_products
    ELSE filter_added_by(all_products, username)

\* A list that takes the products out of the store.
list_lock_take(h) ==
    /\ req[h].op \in {"dashboard", "view_products"}
    /\ pc[h] = "lock"
    /\ mutex = 0
    /\ mutex' = h
    /\ loc' = [loc EXCEPT ![h].visible =
                  visible_products(products, loc[h].is_admin_user,
                                   loc[h].username)]
    /\ products' = <<>>
    /\ pc' = [pc EXCEPT ![h] = "render"]
    /\ UNCHANGED <<req, resp, origin, listed>>

\* state.lock() and the filter, in dashboard (353-360) and view_products (502-509).
list_lock(h) ==
    /\ req[h].op \in {"dashboard", "view_products"}
    /\ pc[h] = "lock"
    /\ mutex = 0
    /\ mutex' = h
    /\ loc' = [loc EXCEPT ![h].visible =
                  visible_products(products, loc[h].is_admin_user,
                                   loc[h].username)]
    /\ pc' = [pc EXCEPT ![h] = "render"]
    /\ UNCHANGED <<products, req, resp, origin, listed>>

\* History: the visible products handler h computed are remembered, with the
\* actor they were computed for and the number of adds that had succeeded.
observe(h) ==
    /\ req[h].op \in {"dashboard", "view_products"}
    /\ pc[h] = "render"
    /\ listed' = <<[op |-> req[h].op,
                    username |-> loc[h].username,
                    is_admin_user |-> loc[h].is_admin_user,
                    visible |-> loc[h].visible,
                    adds |-> Len(origin)]>>
    /\ listed' # listed
    /\ UNCHANGED <<products, mutex, pc, req, loc, resp, origin>>

\* A dashboard that returns its page without dropping the guard.
dashboard_render_holds(h, keep) ==
    /\ req[h].op = "dashboard"
    /\ pc[h] = "render"
    /\ mutex = h
    /\ returns(h, req[h],
               Page(take(rev(loc[h].visible), RecentCount),
                    <<RootPath,
                      AddProductUser \o loc[h].username \o AndRole
                          \o loc[h].role,
                      ProductsPath>>), keep)
    /\ UNCHANGED <<products, mutex, origin, listed>>

\* Lines 362-404: the cards of the 3 most recent products; the guard is dropped
\* where the block ends and the page is returned.
dashboard_render(h, keep) ==
    /\ req[h].op = "dashboard"
    /\ pc[h] = "render"
    /\ mutex = h
    /\ returns(h, req[h],
               Page(take(rev(loc[h].visible), RecentCount),
                    <<RootPath,
                      AddProductUser \o loc[h].username \o AndRole
                          \o loc[h].role,
                      ProductsPath>>), keep)
    /\ mutex' = 0
    /\ UNCHANGED <<products, origin, listed>>

\* Lines 511-591: a card for every visible product, the most recent first.
view_products_render(h, keep) ==
    /\ req[h].op = "view_products"
    /\ pc[h] = "render"
    /\ mutex = h
    /\ returns(h, req[h],
               Page(rev(loc[h].visible),
                    <<DashboardUser \o loc[h].username \o AndRole
                          \o loc[h].role>>), keep)
    /\ mutex' = 0
    /\ UNCHANGED <<products, origin, listed>>

\* The response is sent and the handler's task ends.
finish(h) ==
    /\ pc[h] = "done"
    /\ pc' = [pc EXCEPT ![h] = "idle"]
    /\ req' = [req EXCEPT ![h] = NoRequest]
    /\ resp' = [resp EXCEPT ![h] = NoResponse]
    /\ UNCHANGED <<products, mutex, loc, origin, listed>>

(***************************************************************************)
(* Spec: concurrent handlers on the store.  Two users add products with    *)
(* the regular role and list them with the regular and with the admin      *)
(* role; a handler's response is sent in the step that returns it.         *)
(***************************************************************************)
Alice == Str("alice")
Bob == Str("bob")
PS5 == Str("PS5")
AmazonPs5 == Str("https://amazon.com/ps5")
BestBuyPs5 == Str("https://bestbuy.com/ps5")
Price399 == Str("399.99")

Users == {<<Alice>>, <<Bob>>}
Roles == {<<RoleRegular>>, <<RoleAdmin>>}
Forms ==
    {ProductForm(AmazonPs5, PS5, Amazon, <<Price399>>),
     ProductForm(BestBuyPs5, PS5, Amazon, <<>>)}

Next ==
    \E h \in Handlers :
        \/ \E user \in Users, form \in Forms :
               add_product_begin(h, user, <<RoleRegular>>, form, MaxProducts,
                                 FALSE)
        \/ add_product_lock(h)
        \/ add_product_push(h, FALSE)
        \/ \E user \in Users, role \in Roles : dashboard_begin(h, user, role)
        \/ \E user \in Users, role \in Roles : view_products_begin(h, user, role)
        \/ list_lock(h)
        \/ dashboard_render(h, FALSE)
        \/ view_products_render(h, FALSE)

Spec == Init /\ [][Next]_vars

(***************************************************************************)
(* SpecSeq: one handler serves one request after the other, and each       *)
(* response stays with its request until finish.  The requests are drawn   *)
(* widely: login forms with empty fields and with spellings of "admin",    *)
(* queries with user or role missing or misspelt, every retailer with      *)
(* every url, and target prices of every shape.                            *)
(***************************************************************************)
LoginNames ==
    {<<>>, AdminName, Str("Admin"), Str("ADMIN"), Str("admin1"), Str("adm"),
     Alice}
Passwords == {<<>>, Str("pw")}

SeqUsers == {<<>>, <<Alice>>, <<AdminName>>, <<Str("Admin")>>}
SeqRoles == {<<>>, <<RoleRegular>>, <<RoleAdmin>>, <<Str("Admin")>>}

SeqRetailers == {BestBuy, Amazon, Str("amazon"), Str("Walmart"), <<>>}
SeqUrls ==
    {AmazonPs5, Str("https://AMAZON.COM/ps5"), Str("https://amzn.to/ps5"),
     Str("https://a.co/ps5"), BestBuyPs5, Str("https://BestBuy.com/ps5"),
     Str("https://walmart.com/ps5"), Str("https://nvidia.com/gpu"),
     Str("ps5"), <<>>}
SeqPrices ==
    {<<>>, <<<<>>>>, <<Str("abc")>>, <<Str("$5")>>, <<Str(" 5")>>,
     <<Str("1,000")>>, <<Str("399.99.")>>, <<Price399>>, <<Str("12")>>,
     <<Str("-1.50")>>, <<Str(".5")>>}
SeqForms ==
    {ProductForm(url, PS5, retailer, <<Price399>>) :
        url \in SeqUrls, retailer \in SeqRetailers}
    \cup {ProductForm(AmazonPs5, PS5, Amazon, price) : price \in SeqPrices}

NextSeq ==
    \/ \E username \in LoginNames, password \in Passwords :
           login(1, username, password, TRUE)
    \/ \E form \in SeqForms :
           add_product_begin(1, <<Alice>>, <<RoleRegular>>, form,
                             MaxProductsSeq, TRUE)
    \/ \E form \in Forms :
           add_product_begin(1, <<>>, <<>>, form, MaxProductsSeq, TRUE)
    \/ add_product_lock(1)
    \/ add_product_push(1, TRUE)
    \/ \E user \in SeqUsers, role \in SeqRoles : dashboard_begin(1, user, role)
    \/ \E user \in SeqUsers, role \in SeqRoles : view_products_begin(1, user, role)
    \/ list_lock(1)
    \/ dashboard_render(1, TRUE)
    \/ view_products_render(1, TRUE)
    \/ finish(1)

SpecSeq == Init /\ [][NextSeq]_vars

(***************************************************************************)
(* SpecList: handler 1 lists, for alice as a regular user and for bob as   *)
(* an admin, while the other handlers add products; the result of a list   *)
(* may be remembered to compare later lists with it.                       *)
(***************************************************************************)
Lister == 1
Adders == Handlers \ {Lister}
ListActors == {<<<<Alice>>, <<RoleRegular>>>>, <<<<Bob>>, <<RoleAdmin>>>>}

NextList ==
    \/ \E h \in Adders :
           \/ \E user \in Users, form \in Forms :
                  add_product_begin(h, user, <<RoleRegular>>, form,
                                    MaxProducts, FALSE)
           \/ add_product_lock(h)
           \/ add_product_push(h, FALSE)
    \/ \E actor \in ListActors : dashboard_begin(Lister, actor[1], actor[2])
    \/ \E actor \in ListActors :
           view_products_begin(Lister, actor[1], actor[2])
    \/ list_lock(Lister)
    \/ observe(Lister)
    \/ dashboard_render(Lister, FALSE)
    \/ view_products_render(Lister, FALSE)

SpecList == Init /\ [][NextList]_vars

(***************************************************************************)
(* SpecFair: concurrent handlers under fair scheduling.  alice adds, and   *)
(* lists as a regular user; bob lists as an admin.  A handler that holds   *)
(* the guard runs on until it drops it (weak fairness), and a handler      *)
(* that finds the mutex free again and again gets it (strong fairness).    *)
(***************************************************************************)
NextFair ==
    \E h \in Handlers :
        \/ \E form \in Forms :
               add_product_begin(h, <<Alice>>, <<RoleRegular>>, form,
                                 MaxProductsSeq, FALSE)
        \/ add_product_lock(h)
        \/ add_product_push(h, FALSE)
        \/ \E actor \in ListActors : dashboard_begin(h, actor[1], actor[2])
        \/ \E actor \in ListActors :
               view_products_begin(h, actor[1], actor[2])
        \/ list_lock(h)
        \/ dashboard_render(h, FALSE)
        \/ view_products_render(h, FALSE)

Fairness ==
    \A h \in Handlers :
        /\ SF_vars(add_product_lock(h))
        /\ SF_vars(list_lock(h))
        /\ WF_vars(add_product_push(h, FALSE))
        /\ WF_vars(dashboard_render(h, FALSE))
        /\ WF_vars(view_products_render(h, FALSE))

SpecFair == Init /\ [][NextFair]_vars /\ Fairness

(***************************************************************************)
(* Properties.                                                             *)
(***************************************************************************)
ListOps == {"dashboard", "view_products"}

\* Handler h holds the lock with the visible products of a list computed.
Listing(h) == req[h].op \in ListOps /\ pc[h] = "render"

\* The username a request acts for.
RequestUser(user) == IF user = <<>> THEN Anonymous ELSE user[1]

\* s is "admin" in some mix of upper and lower case.
AdminUpper == Str("ADMIN")
AdminSpelling(s) ==
    /\ Len(s) = 5
    /\ \A i \in 1..5 : s[i] \in {AdminName[i], AdminUpper[i]}

\* c and d are the same character up to the case of c.
SameLetter(c, d) == c = d \/ (c \in UpperSet /\ Lowered[c] = d)

\* frag occurs in url, ignoring the case of url.
HasFragment(url, frag) ==
    \E i \in 0..(Len(url) - Len(frag)) :
        \A k \in 1..Len(frag) : SameLetter(url[i + k], frag[k])

\* The domain fragments of a retailer.
Fragments(retailer) ==
    IF retailer = BestBuy THEN {BestBuyCom}
    ELSE IF retailer = Amazon THEN {AmazonCom, AmznTo, ACo}
    ELSE {}

Supported == {BestBuy, Amazon}

EndsWith(s, suffix) ==
    /\ Len(suffix) <= Len(s)
    /\ SubSeq(s, Len(s) - Len(suffix) + 1, Len(s)) = suffix

\* The response is add_product's redirect with this error.
FailsWith(response, error) ==
    /\ response.kind = "redirect"
    /\ EndsWith(response.location, AndError \o error)

Succeeds(response) ==
    /\ response.kind = "redirect"
    /\ EndsWith(response.location, AndSuccess)

\* Handler h receives an add_product request in this step.
AddArrives(h) == req[h].op = "none" /\ req'[h].op = "add_product"

\* C1: in the visible products computed for a non-admin actor, every product's
\* added_by is the actor's username: no product added by another user appears,
\* whatever was added and listed before and however the handlers interleave.
C1_Isolation ==
    \A h \in Handlers :
        (Listing(h) /\ ~loc[h].is_admin_user) =>
            \A i \in 1..Len(loc[h].visible) :
                loc[h].visible[i].added_by = loc[h].username

\* A regular user lists its own products while the store holds another user's.
C1_Witness ==
    \E h \in Handlers :
        /\ Listing(h) /\ ~loc[h].is_admin_user
        /\ loc[h].visible # <<>>
        /\ \E k \in 1..Len(products) : products[k].added_by # loc[h].username

\* C2: a handler acts with the admin role if and only if the username it acts
\* for is "admin" in some case.
C2_RoleFromUsername ==
    \A h \in Handlers :
        pc[h] \in {"lock", "push", "render"} =>
            ((loc[h].role = RoleAdmin) <=> AdminSpelling(loc[h].username))

\* C3: the visible products computed for an admin are the whole store, every
\* product once and in insertion order.
C3_AdminSeesAll ==
    \A h \in Handlers :
        (Listing(h) /\ loc[h].is_admin_user) => loc[h].visible = products

\* An admin lists a store that holds products of two users, none its own.
C3_Witness ==
    \E h \in Handlers :
        /\ Listing(h) /\ loc[h].is_admin_user
        /\ Len(products) >= 2
        /\ products[1].added_by # products[2].added_by
        /\ loc[h].username # products[1].added_by

\* C4: an add_product request whose retailer is not exactly "Best Buy" or
\* "Amazon" is answered at once with the error invalid_retailer, whatever its
\* url is, and the store is left as it was.
C4_InvalidRetailer ==
    [][\A h \in Handlers :
          (AddArrives(h) /\ req'[h].retailer \notin Supported) =>
              /\ pc'[h] = "done"
              /\ FailsWith(resp'[h], InvalidRetailer)
              /\ products' = products]_vars

\* A retailer in the wrong case with a url of that retailer is refused while
\* the store holds a product.
C4_Witness ==
    \E h \in Handlers :
        /\ pc[h] = "done" /\ req[h].op = "add_product"
        /\ req[h].retailer = Str("amazon")
        /\ HasFragment(req[h].url, AmazonCom)
        /\ FailsWith(resp[h], InvalidRetailer)
        /\ products # <<>>

\* C5: an add_product request with a supported retailer whose url, in lower
\* case, contains none of that retailer's domain fragments is answered at once
\* with the error invalid_url, and the store is left as it was.
C5_InvalidUrl ==
    [][\A h \in Handlers :
          (/\ AddArrives(h)
           /\ req'[h].retailer \in Supported
           /\ \A frag \in Fragments(req'[h].retailer) :
                  ~HasFragment(req'[h].url, frag)) =>
              /\ pc'[h] = "done"
              /\ FailsWith(resp'[h], InvalidUrl)
              /\ products' = products]_vars

\* A url of the other retailer is refused, for either retailer, while the
\* store holds a product.
C5_Witness ==
    \E h \in Handlers :
        /\ pc[h] = "done" /\ req[h].op = "add_product"
        /\ \/ req[h].retailer = Amazon /\ HasFragment(req[h].url, BestBuyCom)
           \/ req[h].retailer = BestBuy /\ HasFragment(req[h].url, AmazonCom)
        /\ FailsWith(resp[h], InvalidUrl)
        /\ products # <<>>

\* C6: the visible products computed for an actor include, for every product
\* the store holds that a request of the same user added, a product with that
\* request's url, name and retailer and the user's name as added_by.  (A
\* product is in the store before its add_product returns, and the store only
\* grows, so these are at least the adds that returned before the list began.)
C6_ReadYourWrites ==
    \A h \in Handlers :
        Listing(h) =>
            \A i \in 1..Len(origin) :
                RequestUser(origin[i].user) = loc[h].username =>
                    \E j \in 1..Len(loc[h].visible) :
                        /\ loc[h].visible[j].url = origin[i].url
                        /\ loc[h].visible[j].name = origin[i].name
                        /\ loc[h].visible[j].retailer = origin[i].retailer
                        /\ loc[h].visible[j].added_by = loc[h].username

\* A regular user lists after its add_product has returned (no other handler
\* is at work), the store holding another user's product too.
C6_Witness ==
    \E h \in Handlers :
        /\ Listing(h) /\ ~loc[h].is_admin_user
        /\ \A g \in Handlers \ {h} : pc[g] = "idle"
        /\ \E i \in 1..Len(origin) : RequestUser(origin[i].user) = loc[h].username
        /\ \E i \in 1..Len(origin) : RequestUser(origin[i].user) # loc[h].username

\* Handler h receives a login request in this step.
LoginArrives(h) == req[h].op = "none" /\ req'[h].op = "login"

\* Identity resolution as specified.
Resolve(username, password) ==
    IF username = <<>> \/ password = <<>> THEN Redirect(RootPath)
    ELSE Redirect(DashboardUser \o username \o AndRole
                  \o (IF AdminSpelling(username) THEN RoleAdmin
                      ELSE RoleRegular))

\* C7: a login is answered at once: with the redirect to the login page exactly
\* when the username or the password is empty, and otherwise with the redirect
\* that carries the username as submitted and the role admin if the username
\* is "admin" in some case and regular if not; the store is not touched.
C7_Login ==
    [][\A h \in Handlers :
          LoginArrives(h) =>
              /\ pc'[h] = "done"
              /\ resp'[h] = Resolve(req'[h].username, req'[h].password)
              /\ products' = products /\ mutex' = mutex /\ origin' = origin]_vars

\* "Admin" logs in, with a product in the store, and gets the admin role.
C7_Witness ==
    \E h \in Handlers :
        /\ pc[h] = "done" /\ req[h].op = "login"
        /\ req[h].username = Str("Admin")
        /\ EndsWith(resp[h].location, AndRole \o RoleAdmin)
        /\ products # <<>>

\* The target price a price text must give: none for no text, the empty text
\* and what is no decimal, the number for a decimal.
Decimal(neg, mant, exp) ==
    <<[kind |-> "num", neg |-> neg, mant |-> mant, exp |-> exp]>>
ExpectedPrice(text) ==
    CASE text = <<>> -> <<>>
      [] text = <<<<>>>> -> <<>>
      [] text = <<Str("abc")>> -> <<>>
      [] text = <<Str("$5")>> -> <<>>
      [] text = <<Str(" 5")>> -> <<>>
      [] text = <<Str("1,000")>> -> <<>>
      [] text = <<Str("399.99.")>> -> <<>>
      [] text = <<Str("399.99")>> -> Decimal(FALSE, 39999, 0 - 2)
      [] text = <<Str("12")>> -> Decimal(FALSE, 12, 0)
      [] text = <<Str("-1.50")>> -> Decimal(TRUE, 15, 0 - 1)
      [] text = <<Str(".5")>> -> Decimal(FALSE, 5, 0 - 1)

\* C8: an add_product request with a supported retailer and a url of that
\* retailer succeeds whatever its target price text is, and every stored
\* product has the target price its request's text must give.
C8_TargetPrice ==
    /\ \A h \in Handlers :
           (/\ pc[h] = "done" /\ req[h].op = "add_product"
            /\ req[h].retailer \in Supported
            /\ \E frag \in Fragments(req[h].retailer) :
                   HasFragment(req[h].url, frag)) => Succeeds(resp[h])
    /\ \A i \in 1..Len(products) :
           products[i].target_price = ExpectedPrice(origin[i].target_price)

\* An add_product with a price text that is no number has succeeded, and its
\* product is stored without a target price.
C8_Witness ==
    \E h \in Handlers :
        /\ pc[h] = "done" /\ req[h].op = "add_product" /\ Succeeds(resp[h])
        /\ req[h].target_price = <<Str("399.99.")>>
        /\ products # <<>>
        /\ origin[Len(origin)].target_price = req[h].target_price
        /\ products[Len(products)].target_price = <<>>

\* v is a prefix of w.
IsPrefix(v, w) == Len(v) <= Len(w) /\ SubSeq(w, 1, Len(v)) = v

\* C9: the store is empty at startup and every step leaves the products it
\* holds where and as they are: the new sequence has the old one as a prefix.
C9_AppendOnly ==
    /\ products = <<>>
    /\ [][IsPrefix(products, products')]_vars

\* The store holds two different products.
C9_Witness == Len(products) >= 2 /\ products[1] # products[2]

\* C10: every stored product has a supported retailer, and as added_by the
\* username of the request that added it.
C10_RetailerAndOwner ==
    \A i \in 1..Len(products) :
        /\ products[i].retailer \in Supported
        /\ products[i].added_by = RequestUser(origin[i].user)

\* The store holds a product that alice added.
C10_Witness ==
    /\ products # <<>>
    /\ origin[1].user = <<Alice>>
    /\ products[1].added_by = Alice

\* The host of a url: the text between "://" and the next "/", "?" or "#".
SchemeEnd(url) ==
    {i \in 1..(Len(url) - 2) : SubSeq(url, i, i + 2) = Str("://")}

HostStart(url) == (CHOOSE i \in SchemeEnd(url) :
                       \A j \in SchemeEnd(url) : i <= j) + 3

HostStops(url) ==
    {i \in HostStart(url)..Len(url) : url[i] \in {"/", "?", "#"}}

HostOf(url) ==
    IF SchemeEnd(url) = {} THEN <<>>
    ELSE IF HostStops(url) = {} THEN SubSeq(url, HostStart(url), Len(url))
    ELSE SubSeq(url, HostStart(url),
                (CHOOSE i \in HostStops(url) :
                     \A j \in HostStops(url) : i <= j) - 1)

\* host is the domain or one of its subdomains, ignoring case.
InDomain(host, domain) ==
    \/ to_lowercase(host) = domain
    \/ EndsWith(to_lowercase(host), <<".">> \o domain)

\* C11: the host of every stored product's url is in the domain set of the
\* product's retailer (bestbuy.com for "Best Buy"; amazon.com, amzn.to or a.co
\* for "Amazon"): no url of another site is stored under a retailer.
C11_UrlOfRetailer ==
    \A i \in 1..Len(products) :
        \E domain \in Fragments(products[i].retailer) :
            InDomain(HostOf(products[i].url), domain)

\* Handler h takes a step of a list operation.
ListStep(h) ==
    /\ pc'[h] # pc[h]
    /\ req[h].op \in ListOps \/ req'[h].op \in ListOps

\* The remembered list was computed for the actor handler h lists for, and no
\* add has succeeded since.
SameActorNoAdd(h) ==
    /\ listed # <<>>
    /\ listed[1].username = loc[h].username
    /\ listed[1].is_admin_user = loc[h].is_admin_user
    /\ listed[1].adds = Len(origin)

Repeatable ==
    \A h \in Handlers :
        (Listing(h) /\ SameActorNoAdd(h)) =>
            loc[h].visible = listed[1].visible

\* C12: every step of a list operation leaves the product sequence unchanged,
\* and a list for the same actor as an earlier list, with no successful add
\* in between, computes the same products in the same order.
C12_ReadOnlyRepeatable ==
    [][/\ \A h \in Handlers : ListStep(h) => products' = products
       /\ Repeatable']_vars

\* view_products lists for the actor a dashboard request listed two products
\* for, with no add in between.
C12_Witness ==
    /\ Listing(Lister)
    /\ SameActorNoAdd(Lister)
    /\ req[Lister].op = "view_products"
    /\ listed[1].op = "dashboard"
    /\ Len(listed[1].visible) >= 2

\* Handler h is inside a read or a write of the product sequence.
InStore(h) == pc[h] \in {"push", "render"}

ProductFields ==
    {"url", "name", "retailer", "target_price", "added_by", "created_at"}

\* product has every field set and passed the retailer and url validation.
Complete(product) ==
    /\ DOMAIN product = ProductFields
    /\ product.retailer \in Supported
    /\ \E frag \in Fragments(product.retailer) :
           HasFragment(product.url, frag)
    /\ product.name # <<>>
    /\ product.added_by # <<>>
    /\ Len(product.target_price) <= 1
    /\ product.created_at \in Times

\* C13: at most one handler is inside a read or a write of the product
\* sequence, the one that holds the mutex, and every product a list sees has
\* all its fields set and passed the validation.
C13_MutualExclusion ==
    /\ \A g, h \in Handlers : (InStore(g) /\ InStore(h)) => g = h
    /\ \A h \in Handlers : InStore(h) => mutex = h
    /\ \A h \in Handlers :
           Listing(h) =>
               \A i \in 1..Len(loc[h].visible) : Complete(loc[h].visible[i])

\* A list reads a product while an add_product handler waits for the lock.
C13_Witness ==
    \E g, h \in Handlers :
        /\ Listing(h)
        /\ loc[h].visible # <<>>
        /\ req[g].op = "add_product"
        /\ pc[g] = "lock"

StoredFor(i) ==
    /\ products[i].url = origin[i].url
    /\ products[i].name = origin[i].name
    /\ products[i].retailer = origin[i].retailer
    /\ products[i].added_by = RequestUser(origin[i].user)

\* C15: once no add_product handler is on its way to the store, the store
\* holds exactly one product for each add that returned success, in their
\* order, and nothing else: none is lost, none is stored twice, and no
\* candidate that fails the validation is stored.
C15_NoLostUpdates ==
    Pushing = {} =>
        /\ Len(products) = Len(origin)
        /\ \A i \in 1..Len(products) : StoredFor(i) /\ Complete(products[i])

\* The same candidate was added twice by the same user, and with both adds
\* done the store holds two entries for it.
C15_Witness ==
    /\ Pushing = {}
    /\ Len(products) = 2
    /\ origin[1] = origin[2]
    /\ products[1] = products[2]

\* The first position of character c in s, or 0.
FirstIndex(s, c) ==
    IF \E i \in 1..Len(s) : s[i] = c
    THEN CHOOSE i \in 1..Len(s) : s[i] = c /\ \A j \in 1..(i - 1) : s[j] # c
    ELSE 0

RECURSIVE Split(_, _)
Split(s, c) ==
    IF FirstIndex(s, c) = 0 THEN <<s>>
    ELSE <<SubSeq(s, 1, FirstIndex(s, c) - 1)>>
         \o Split(SubSeq(s, FirstIndex(s, c) + 1, Len(s)), c)

\* The key=value pairs of a location's query string.
QueryPairs(location) ==
    IF FirstIndex(location, "?") = 0 \/ FirstIndex(location, "?") = Len(location)
    THEN <<>>
    ELSE Split(SubSeq(location, FirstIndex(location, "?") + 1, Len(location)),
               "&")

PairKey(pair) ==
    IF FirstIndex(pair, "=") = 0 THEN pair
    ELSE SubSeq(pair, 1, FirstIndex(pair, "=") - 1)

PairValue(pair) ==
    IF FirstIndex(pair, "=") = 0 THEN <<>>
    ELSE SubSeq(pair, FirstIndex(pair, "=") + 1, Len(pair))

\* What a handler's params.get(key) gives for a request to this location:
\* the value of the last pair with the key, if there is one.
QueryGet(location, key) ==
    LET pairs == QueryPairs(location)
        hits == {i \in 1..Len(pairs) : PairKey(pairs[i]) = key}
    IN IF hits = {} THEN <<>>
       ELSE <<PairValue(pairs[CHOOSE i \in hits : \A j \in hits : j <= i])>>

\* The actor the handler of a request to this location acts for.
ActorAt(location) ==
    [username |-> unwrap_or(QueryGet(location, Str("user")), Anonymous),
     role |-> unwrap_or(QueryGet(location, Str("role")), RoleRegular)]

\* The actor a request acts for; a login acts for the username it submits,
\* with the role of that username.
ActorOf(request) ==
    IF request.op = "login"
    THEN [username |-> request.username,
          role |-> IF AdminSpelling(request.username) THEN RoleAdmin
                   ELSE RoleRegular]
    ELSE [username |-> RequestUser(request.user),
          role |-> unwrap_or(request.role, RoleRegular)]

\* The navigation a response offers: the location of a redirect, and the
\* form action and the links of a page; the way to the login page aside.
Navigation(response) ==
    (IF response.kind = "redirect" THEN {response.location}
     ELSE {response.links[i] : i \in 1..Len(response.links)})
    \ {RootPath}

\* C16: every redirect, form action and link of a response carries the user
\* and the role of the request it answers: following it, the next handler
\* acts for the same actor.
C16_IdentityPreserved ==
    \A h \in Handlers :
        pc[h] = "done" =>
            \A location \in Navigation(resp[h]) :
                ActorAt(location) = ActorOf(req[h])

====
